---------------------------- MODULE Spec2Model ----------------------------
(***************************************************************************)
(* Model of the two inference services of crop-cure-chat-backend:          *)
(*                                                                         *)
(*   agriclip_service/text_query_service.py  the /text/query route: lazy   *)
(*       load of the answer generator, empty-input check, keyword domain   *)
(*       gate, image-intent detector, answer generation with fallback;     *)
(*   agriclip_service/agriclip_models.py     the /health and /classify     *)
(*       routes: lazy load of the vision classifier and of the report      *)
(*       generator, classification, severity, report generation.           *)
(*                                                                         *)
(* Strings that the code inspects character by character (the query text)  *)
(* are sequences of one-character strings, so that lower(), strip() and    *)
(* the regular expressions are computed, not assumed.                      *)
(***************************************************************************)
EXTENDS Naturals, Integers, Sequences, FiniteSets, TLC

VARIABLES
    \* ---- text_query_service.py: module globals
    tq_tokenizer,     \* global `tokenizer`  (None or the loaded tokenizer)
    tq_model,         \* global `model`      (None or the loaded model)
    \* ---- text_query_service.py: the request the event loop is running
    pc,               \* position of the running text_query coroutine
    request_text,     \* request.text, as received
    text,             \* local `text` = request.text.strip()
    domain,           \* local `domain`
    response,         \* what text_query returned or raised
    generated,        \* what model.generate did: raised, or the answer's length
    path,             \* the stages this request went through, in order
    everLoadFailed,   \* some request of this process got the load error
    \* ---- agriclip_models.py: module globals
    image_processor,  \* global `image_processor`
    image_model,      \* global `image_model` (None or a handle id)
    tokenizer,        \* global `tokenizer`
    text_model,       \* global `text_model`  (None or a handle id)
    evalMode,         \* handle id -> whether .eval() has been applied to it
    constructed,      \* kind -> number of models from_pretrained has built
    \* ---- agriclip_models.py: one entry per request thread
    ipc,              \* position of the thread
    route,            \* "health" or "classify"
    guardPassed,      \* the kinds whose `is None` guard the thread's last
                      \* load_models call found false
    iresponse,        \* what the route returned
    \* ---- severity computation of classify, taken on its own
    conf,             \* float(confidence.item()), in units of 1/ProbScale
    confidence,       \* cls_result["confidence"] = int(conf * 100)
    severity          \* the severity string of the response

tqVars  == <<tq_tokenizer, tq_model, pc, request_text, text, domain, generated,
             response, path, everLoadFailed>>
imgVars == <<image_processor, image_model, tokenizer, text_model, evalMode,
             constructed, ipc, route, guardPassed, iresponse>>
sevVars == <<conf, confidence, severity>>
vars    == <<tqVars, imgVars, sevVars>>

None == "None"

\* Optional[str]: absent, or the one string it holds.
Nothing   == << >>
Some(x)   == << x >>

Min(S) == CHOOSE x \in S : \A y \in S : x <= y
Max(S) == CHOOSE x \in S : \A y \in S : x >= y

---------------------------------------------------------------------------
(* Characters *)

LowerLetters ==
    {"a","b","c","d","e","f","g","h","i","j","k","l","m","n","o","p","q","r",
     "s","t","u","v","w","x","y","z"}
UpperLetters ==
    {"A","B","C","D","E","F","G","H","I","J","K","L","M","N","O","P","Q","R",
     "S","T","U","V","W","X","Y","Z"}
Digits == {"0","1","2","3","4","5","6","7","8","9"}

\* str.lower() on one character.
LowerOf ==
    ("A" :> "a") @@ ("B" :> "b") @@ ("C" :> "c") @@ ("D" :> "d") @@
    ("E" :> "e") @@ ("F" :> "f") @@ ("G" :> "g") @@ ("H" :> "h") @@
    ("I" :> "i") @@ ("J" :> "j") @@ ("K" :> "k") @@ ("L" :> "l") @@
    ("M" :> "m") @@ ("N" :> "n") @@ ("O" :> "o") @@ ("P" :> "p") @@
    ("Q" :> "q") @@ ("R" :> "r") @@ ("S" :> "s") @@ ("T" :> "t") @@
    ("U" :> "u") @@ ("V" :> "v") @@ ("W" :> "w") @@ ("X" :> "x") @@
    ("Y" :> "y") @@ ("Z" :> "z")

\* The regular-expression classes \w and \s, and `.` (anything but newline).
IsWordChar(c)  == c \in LowerLetters \cup UpperLetters \cup Digits \cup {"_"}
IsSpaceChar(c) == c \in {" ", "\t", "\n", "\r"}
IsDotChar(c)   == c # "\n"

\* str.lower()
lower(s) == [i \in 1..Len(s) |-> IF s[i] \in UpperLetters THEN LowerOf[s[i]] ELSE s[i]]

\* str.strip()
strip(s) ==
    LET keep == {i \in 1..Len(s) : ~IsSpaceChar(s[i])}
    IN  IF keep = {} THEN << >> ELSE SubSeq(s, Min(keep), Max(keep))

\* The literal `lit` stands in `s` at position i.
LiteralAt(s, i, lit) ==
    /\ i >= 1
    /\ i + Len(lit) - 1 <= Len(s)
    /\ \A n \in 1..Len(lit) : s[i + n - 1] = lit[n]

\* \b before position i (i = Len(s) + 1: at the end): exactly one of the two
\* neighbouring characters is a word character.
WordBoundary(s, i) ==
    LET before == i > 1 /\ i - 1 <= Len(s) /\ IsWordChar(s[i - 1])
        after  == i >= 1 /\ i <= Len(s) /\ IsWordChar(s[i])
    IN  before # after

---------------------------------------------------------------------------
(* text_query_service.py: constants *)

OUT_OF_SCOPE_MSG ==
    "I can help only with plant, fruit, livestock, and fish related questions."
FALLBACK_ANSWER ==
    "Causes: ... Symptoms: ... Prevention: ... General care or treatment: ..."
APOLOGY_ANSWER ==
    "Sorry, I encountered an issue while answering your question."

\* len(answer) < 10 selects the fallback answer.
MinAnswerLen == 10

plant_keywords ==
  << <<"p","l","a","n","t">>,
     <<"l","e","a","f">>,
     <<"c","r","o","p">>,
     <<"t","r","e","e">>,
     <<"f","l","o","w","e","r">>,
     <<"r","o","o","t">>,
     <<"s","t","e","m">>,
     <<"w","e","e","d">>,
     <<"g","r","a","s","s">>,
     <<"v","e","g","e","t","a","b","l","e">>,
     <<"w","h","e","a","t">>,
     <<"r","i","c","e">>,
     <<"c","o","r","n">>,
     <<"m","a","i","z","e">>,
     <<"s","o","y","b","e","a","n">>,
     <<"c","o","t","t","o","n">>,
     <<"b","a","n","a","n","a"," ","p","l","a","n","t">>,
     <<"a","p","p","l","e"," ","p","l","a","n","t">>,
     <<"t","o","m","a","t","o"," ","p","l","a","n","t">> >>
fruit_keywords ==
  << <<"f","r","u","i","t">>,
     <<"a","p","p","l","e">>,
     <<"b","a","n","a","n","a">>,
     <<"m","a","n","g","o">>,
     <<"c","i","t","r","u","s">>,
     <<"b","e","r","r","y">>,
     <<"g","r","a","p","e">>,
     <<"m","e","l","o","n">>,
     <<"p","a","p","a","y","a">>,
     <<"o","r","a","n","g","e">>,
     <<"l","e","m","o","n">> >>
livestock_keywords ==
  << <<"l","i","v","e","s","t","o","c","k">>,
     <<"c","o","w">>,
     <<"c","a","t","t","l","e">>,
     <<"s","h","e","e","p">>,
     <<"g","o","a","t">>,
     <<"p","i","g">>,
     <<"a","n","i","m","a","l">>,
     <<"f","a","r","m">>,
     <<"c","h","i","c","k","e","n">>,
     <<"p","o","u","l","t","r","y">>,
     <<"d","u","c","k">>,
     <<"b","u","f","f","a","l","o">> >>
fish_keywords ==
  << <<"f","i","s","h">>,
     <<"s","a","l","m","o","n">>,
     <<"t","r","o","u","t">>,
     <<"a","q","u","a","c","u","l","t","u","r","e">>,
     <<"p","o","n","d">>,
     <<"s","h","r","i","m","p">>,
     <<"s","e","a","f","o","o","d">>,
     <<"t","i","l","a","p","i","a">>,
     <<"c","a","r","p">> >>

\* The dict, in its iteration (insertion) order.
DOMAIN_KEYWORDS ==
  << [domain |-> "plant",     keywords |-> plant_keywords],
     [domain |-> "fruit",     keywords |-> fruit_keywords],
     [domain |-> "livestock", keywords |-> livestock_keywords],
     [domain |-> "fish",      keywords |-> fish_keywords] >>

\* The alternatives of the two regular expressions, in the order written.
REQUEST_VERBS ==
  << <<"s","h","o","w">>, <<"g","i","v","e">>, <<"d","i","s","p","l","a","y">>,
     <<"g","e","t">>, <<"n","e","e","d">>, <<"w","a","n","t">> >>
IMAGE_NOUNS ==
  << <<"i","m","a","g","e">>, <<"p","h","o","t","o">>,
     <<"p","i","c","t","u","r","e">>, <<"p","i","c">> >>
OF_WORD == <<"o","f">>

---------------------------------------------------------------------------
(* text_query_service.py: helpers *)

\* Faulty variant of keyword_search: the pattern without its two \b, so that
\* a keyword inside a longer word counts.
keyword_search_substring(s, k) ==
    \E i \in 1..Len(s) : LiteralAt(s, i, k)

\* re.search(rf"\b{k}s?\b", s): at some position a word boundary, the keyword,
\* an optional "s" (tried first, given up if no boundary follows), a boundary.
keyword_search(s, k) ==
    \E i \in 1..Len(s) :
        /\ s[i] = k[1]
        /\ WordBoundary(s, i)
        /\ LiteralAt(s, i, k)
        /\ LET j == i + Len(k)
           IN  \/ j <= Len(s) /\ s[j] = "s" /\ WordBoundary(s, j + 1)
               \/ WordBoundary(s, j)

RECURSIVE first_domain(_, _)
\* The two nested for loops, from table entry d on: the first entry one of
\* whose keywords is found.
first_domain(text_lower, d) ==
    IF d > Len(DOMAIN_KEYWORDS) THEN None
    ELSE IF \E n \in 1..Len(DOMAIN_KEYWORDS[d].keywords) :
                keyword_search(text_lower, DOMAIN_KEYWORDS[d].keywords[n])
         THEN DOMAIN_KEYWORDS[d].domain
         ELSE first_domain(text_lower, d + 1)

detect_domain(s) == first_domain(lower(s), 1)

\* (show|give|display|get|need|want).*(image|photo|picture|pic) matches from i.
verb_then_noun_at(s, i) ==
    \E v \in 1..Len(REQUEST_VERBS) :
        /\ LiteralAt(s, i, REQUEST_VERBS[v])
        /\ \E j \in (i + Len(REQUEST_VERBS[v]))..Len(s) :
              /\ \A m \in (i + Len(REQUEST_VERBS[v]))..(j - 1) : IsDotChar(s[m])
              /\ \E n \in 1..Len(IMAGE_NOUNS) : LiteralAt(s, j, IMAGE_NOUNS[n])

\* (image|photo|picture|pic)\s+of matches from i.
noun_of_at(s, i) ==
    \E n \in 1..Len(IMAGE_NOUNS) :
        /\ LiteralAt(s, i, IMAGE_NOUNS[n])
        /\ \E j \in (i + Len(IMAGE_NOUNS[n]) + 1)..Len(s) :
              /\ \A m \in (i + Len(IMAGE_NOUNS[n]))..(j - 1) : IsSpaceChar(s[m])
              /\ LiteralAt(s, j, OF_WORD)

\* Faulty variant of detect_image_intent: the second alternative of the
\* pattern, (image|photo|picture|pic)\s+of, is missing.
detect_image_intent_verb_only(s) ==
    LET t == lower(s)
    IN  \E i \in 1..Len(t) : verb_then_noun_at(t, i)

detect_image_intent(s) ==
    LET t == lower(s)
    IN  \E i \in 1..Len(t) : verb_then_noun_at(t, i) \/ noun_of_at(t, i)

\* The alternatives of the substitution pattern, in the order the regular
\* expression tries them at one position.
STRIP_TOKENS == REQUEST_VERBS \o IMAGE_NOUNS \o << OF_WORD >>

RECURSIVE sub_tokens(_, _)
\* re.sub(pattern, "", s) from position i on: leftmost matches, not overlapping.
sub_tokens(s, i) ==
    IF i > Len(s) THEN << >>
    ELSE LET hits == {n \in 1..Len(STRIP_TOKENS) : LiteralAt(s, i, STRIP_TOKENS[n])}
         IN  IF hits = {}
             THEN << s[i] >> \o sub_tokens(s, i + 1)
             ELSE sub_tokens(s, i + Len(STRIP_TOKENS[Min(hits)]))

\* re.sub(r"[^\w\s]", "", q)
sub_punctuation(q) == SelectSeq(q, LAMBDA c : IsWordChar(c) \/ IsSpaceChar(c))

\* The cleaned string before the `or text` fall-back.
stripped_query(s) == strip(sub_punctuation(sub_tokens(lower(s), 1)))

clean_image_query(s) ==
    LET q == stripped_query(s)
    IN  IF q = << >> THEN s ELSE q

---------------------------------------------------------------------------
(* text_query_service.py: the inputs of the model *)

\* A request text is made of at most MaxPieces pieces of the vocabulary.
MaxPieces == 3

\* Pieces that make the cases of the gate and of the detector happen: one
\* keyword of each domain (one capitalised), the plural "s", white space,
\* punctuation, a request verb, an image noun and " of ".
Vocabulary ==
    { <<"r","i","c","e">>, <<"a","p","p","l","e">>, <<"C","o","w">>,
      <<"c","a","r","p">>, <<"s">>, <<" ">>, <<"?">>,
      <<"s","h","o","w"," ">>, <<"p","i","c"," ">>, <<" ","o","f"," ">> }

RECURSIVE Concat(_)
Concat(pieces) ==
    IF pieces = << >> THEN << >> ELSE Head(pieces) \o Concat(Tail(pieces))

Texts ==
    UNION { {Concat(ps) : ps \in [1..n -> Vocabulary]} : n \in 0..MaxPieces }

\* What tokenizer.decode(...).strip() can be: the model's answer is known
\* here by its length only, 0..MaxAnswerLen characters.
MaxAnswerLen == 11

\* What model.generate can do: raise, or produce an answer.
GenerationOutcomes ==
    {[raised |-> TRUE, length |-> 0]} \cup
    {[raised |-> FALSE, length |-> n] : n \in 0..MaxAnswerLen}

\* What the two from_pretrained calls of load_text_model can do.
LoadOutcomes == {"loaded", "tokenizer_fails", "model_fails"}

---------------------------------------------------------------------------
(* text_query_service.py: text_query, stage by stage *)

Terminal == {"LoadFailed", "EmptyInput", "OutOfScope", "ImageIntent", "Answered"}

\* raise HTTPException(status_code=..., detail=...)
http_exception(code, detail) == [status |-> code, detail |-> detail]

\* return TextQueryResponse(...), sent with status 200
text_query_response(type, dom, answer, imageQuery) ==
    [status |-> 200, type |-> type, domain |-> dom, answer |-> answer,
     imageQuery |-> imageQuery]

fixed_answer(msg) == [kind |-> "fixed", text |-> msg]

\* Faulty variant of load_text_model: the except branch logs and does not
\* raise.
load_text_model_swallowing(tok, mdl, outcome) ==
    IF mdl # None
    THEN [tokenizer |-> tok, model |-> mdl, raised |-> FALSE]
    ELSE CASE outcome = "tokenizer_fails" ->
                [tokenizer |-> tok, model |-> None, raised |-> FALSE]
           [] outcome = "model_fails" ->
                [tokenizer |-> "flan-t5-small", model |-> None, raised |-> FALSE]
           [] OTHER ->
                [tokenizer |-> "flan-t5-small", model |-> "flan-t5-small",
                 raised |-> FALSE]

\* load_text_model(): the globals after the call and whether it raised.
\* Nothing is fetched when model is set; otherwise tokenizer and model are
\* assigned in this order, each only if its from_pretrained call returned.
load_text_model(tok, mdl, outcome) ==
    IF mdl # None
    THEN [tokenizer |-> tok, model |-> mdl, raised |-> FALSE]
    ELSE CASE outcome = "tokenizer_fails" ->
                [tokenizer |-> tok, model |-> None, raised |-> TRUE]
           [] outcome = "model_fails" ->
                [tokenizer |-> "flan-t5-small", model |-> None, raised |-> TRUE]
           [] OTHER ->
                [tokenizer |-> "flan-t5-small", model |-> "flan-t5-small",
                 raised |-> FALSE]

\* Faulty variant of after_validate: the domain gate is skipped and the
\* intent check comes first.
after_validate_skipping_gate(t) ==
    IF t = << >> THEN "EmptyInput" ELSE "IntentCheck"

\* `if not text: raise HTTPException(400)`
after_validate(t) == IF t = << >> THEN "EmptyInput" ELSE "DomainCheck"

\* `if not domain: return ...`
after_domain_check(d) == IF d = None THEN "OutOfScope" ELSE "IntentCheck"

\* `if detect_image_intent(text): ... return ...`
after_intent_check(t) ==
    IF detect_image_intent(t) THEN "ImageIntent" ELSE "AnswerGeneration"

\* Faulty variant of out_of_scope_response: domain=domain, the gate's None,
\* in place of the default "plant".
out_of_scope_response_echo ==
    text_query_response("text", None, fixed_answer(OUT_OF_SCOPE_MSG), Nothing)

out_of_scope_response ==
    text_query_response("text", "plant", fixed_answer(OUT_OF_SCOPE_MSG), Nothing)

image_response(d, t) ==
    LET image_query == clean_image_query(t)
    IN  text_query_response("image", d,
            [kind |-> "image_caption", image_query |-> image_query, domain |-> d],
            Some(image_query))

\* Faulty variant of generation_response: no except branch, the exception
\* leaves text_query.
generation_response_uncaught(d, tok, mdl, outcome) ==
    IF outcome.raised \/ tok = None \/ mdl = None
    THEN http_exception(500, "Internal Server Error")
    ELSE IF outcome.length = 0 \/ outcome.length < MinAnswerLen
         THEN text_query_response("text", d, fixed_answer(FALLBACK_ANSWER), Nothing)
         ELSE text_query_response("text", d,
                  [kind |-> "generated", length |-> outcome.length], Nothing)

\* The try block: tokenizer(...), model.generate(...), decode, the length
\* test; and the except branch.  Calling a tokenizer or a model that is
\* still None raises inside the try block as well.
generation_response(d, tok, mdl, outcome) ==
    IF outcome.raised \/ tok = None \/ mdl = None
    THEN text_query_response("text", d, fixed_answer(APOLOGY_ANSWER), Nothing)
    ELSE IF outcome.length = 0 \/ outcome.length < MinAnswerLen
         THEN text_query_response("text", d, fixed_answer(FALLBACK_ANSWER), Nothing)
         ELSE text_query_response("text", d,
                  [kind |-> "generated", length |-> outcome.length], Nothing)

NoResponse == [status |-> 0]
NotGenerated == [raised |-> FALSE, length |-> 0]

\* The event loop starts text_query for the next request.  text_query has no
\* await: a request runs to its end before the next one starts.
Receive ==
    /\ pc = "Waiting"
    /\ \E t \in Texts : request_text' = t
    /\ pc' = "Idle"
    /\ path' = << "Idle" >>
    /\ UNCHANGED <<tq_tokenizer, tq_model, everLoadFailed, text, domain,
                   generated, response, imgVars, sevVars>>

\* line 100: load_text_model()
LoadTextModel ==
    /\ pc = "Idle"
    /\ \E outcome \in LoadOutcomes :
         LET r == load_text_model(tq_tokenizer, tq_model, outcome)
         IN  /\ tq_tokenizer' = r.tokenizer
             /\ tq_model' = r.model
             /\ pc' = IF r.raised THEN "LoadFailed" ELSE "Validate"
             /\ response' = IF r.raised
                            THEN http_exception(500, "Failed to load text model")
                            ELSE response
             /\ everLoadFailed' = (everLoadFailed \/ r.raised)
    /\ path' = Append(path, pc')
    /\ UNCHANGED <<request_text, text, domain, generated, imgVars, sevVars>>

\* lines 102-104
Validate ==
    /\ pc = "Validate"
    /\ text' = strip(request_text)
    /\ pc' = after_validate(text')
    /\ response' = IF pc' = "EmptyInput"
                   THEN http_exception(400, "Empty query") ELSE response
    /\ path' = Append(path, pc')
    /\ UNCHANGED <<tq_tokenizer, tq_model, everLoadFailed, request_text, domain,
                   generated, imgVars, sevVars>>

\* lines 107-113
DomainCheck ==
    /\ pc = "DomainCheck"
    /\ domain' = detect_domain(text)
    /\ pc' = after_domain_check(domain')
    /\ response' = IF pc' = "OutOfScope" THEN out_of_scope_response ELSE response
    /\ path' = Append(path, pc')
    /\ UNCHANGED <<tq_tokenizer, tq_model, everLoadFailed, request_text, text,
                   generated, imgVars, sevVars>>

\* lines 116-123
IntentCheck ==
    /\ pc = "IntentCheck"
    /\ pc' = after_intent_check(text)
    /\ response' = IF pc' = "ImageIntent" THEN image_response(domain, text)
                   ELSE response
    /\ path' = Append(path, pc')
    /\ UNCHANGED <<tq_tokenizer, tq_model, everLoadFailed, request_text, text,
                   domain, generated, imgVars, sevVars>>

\* lines 126-189
AnswerGeneration ==
    /\ pc = "AnswerGeneration"
    /\ \E outcome \in GenerationOutcomes :
         /\ generated' = outcome
         /\ response' = generation_response(domain, tq_tokenizer, tq_model, outcome)
    /\ pc' = "Answered"
    /\ path' = Append(path, pc')
    /\ UNCHANGED <<tq_tokenizer, tq_model, everLoadFailed, request_text, text,
                   domain, imgVars, sevVars>>

\* The response is sent and the coroutine, with its locals, is gone.
Respond ==
    /\ pc \in Terminal
    /\ pc' = "Waiting"
    /\ request_text' = << >>
    /\ text' = << >>
    /\ domain' = None
    /\ generated' = NotGenerated
    /\ response' = NoResponse
    /\ path' = << >>
    /\ UNCHANGED <<tq_tokenizer, tq_model, everLoadFailed, imgVars, sevVars>>

NextText ==
    \/ Receive
    \/ LoadTextModel
    \/ Validate
    \/ DomainCheck
    \/ IntentCheck
    \/ AnswerGeneration
    \/ Respond

\* The text service from process start; the image service is not running.
InitText ==
    /\ tq_tokenizer = None
    /\ tq_model = None
    /\ pc = "Waiting"
    /\ request_text = << >>
    /\ text = << >>
    /\ domain = None
    /\ generated = NotGenerated
    /\ response = NoResponse
    /\ path = << >>
    /\ everLoadFailed = FALSE
    /\ image_processor = None
    /\ image_model = None
    /\ tokenizer = None
    /\ text_model = None
    /\ evalMode = << >>
    /\ constructed = << >>
    /\ ipc = << >>
    /\ route = << >>
    /\ guardPassed = << >>
    /\ iresponse = << >>
    /\ conf = 0
    /\ confidence = 0
    /\ severity = None

SpecText == InitText /\ [][NextText]_vars

---------------------------------------------------------------------------
(* agriclip_models.py: /health and /classify *)

\* health and classify are plain `def` routes: each request runs on a thread
\* of the server's pool, and threads interleave between statements.
NumThreads == 2
Threads == 1..NumThreads

Kinds == {"vision", "report"}

\* A thread's position: the line it is about to run (`at`) and, inside
\* load_models, the function that called it (`in`).
At(line, caller) == [at |-> line, in |-> caller]
IdleThread == At("idle", "none")

\* The response of a route that returned.
json_ok == [status |-> 200, success |-> TRUE]
\* classify's `except Exception` branch (lines 171-179).
json_error == [status |-> 500, success |-> FALSE]
\* An exception that leaves health: the framework's error response.
unhandled_error == [status |-> 500, success |-> "unhandled"]
NoIResponse == [status |-> 0, success |-> "none"]

\* Where an exception raised in a thread of route r ends.
raise_response(r) == IF r = "classify" THEN json_error ELSE unhandled_error

\* Where load_models returns to.
after_load_models(caller) ==
    CASE caller = "health"                  -> At("L118", "health")
      [] caller = "classify_plant_disease"  -> At("L76", "classify_plant_disease")
      [] caller = "generate_disease_report" -> At("L100", "generate_disease_report")

\* A thread of the pool takes a request.
Accept(t) ==
    /\ ipc[t] = IdleThread
    /\ \E r \in {"health", "classify"} :
         /\ route' = [route EXCEPT ![t] = r]
         /\ ipc' = [ipc EXCEPT ![t] = IF r = "health" THEN At("L46", "health")
                                      ELSE At("L136", "classify")]
    /\ UNCHANGED <<image_processor, image_model, tokenizer, text_model, evalMode,
                   constructed, guardPassed, iresponse, tqVars, sevVars>>

\* An exception ends the request of thread t.
Raised(t) ==
    /\ ipc' = [ipc EXCEPT ![t] = At("done", "none")]
    /\ iresponse' = [iresponse EXCEPT ![t] = raise_response(route[t])]

\* line 136: read_image(file), then the call of classify_plant_disease, whose
\* first statement is load_models().
ReadImage(t) ==
    /\ ipc[t] = At("L136", "classify")
    /\ \/ /\ ipc' = [ipc EXCEPT ![t] = At("L46", "classify_plant_disease")]
          /\ UNCHANGED iresponse
       \/ Raised(t)
    /\ UNCHANGED <<image_processor, image_model, tokenizer, text_model, evalMode,
                   constructed, route, guardPassed, tqVars, sevVars>>

\* line 46: if image_model is None
GuardImageModel(t) ==
    /\ ipc[t].at = "L46"
    /\ IF image_model = None
       THEN /\ ipc' = [ipc EXCEPT ![t].at = "L47"]
            /\ guardPassed' = [guardPassed EXCEPT ![t] = {}]
       ELSE /\ ipc' = [ipc EXCEPT ![t].at = "L55"]
            /\ guardPassed' = [guardPassed EXCEPT ![t] = {"vision"}]
    /\ UNCHANGED <<image_processor, image_model, tokenizer, text_model, evalMode,
                   constructed, route, iresponse, tqVars, sevVars>>

\* lines 47-49: image_processor = AutoImageProcessor.from_pretrained(...)
LoadImageProcessor(t) ==
    /\ ipc[t].at = "L47"
    /\ \/ /\ image_processor' = "agriclip-plantvillage-15k"
          /\ ipc' = [ipc EXCEPT ![t].at = "L50"]
          /\ UNCHANGED iresponse
       \/ /\ Raised(t)
          /\ UNCHANGED image_processor
    /\ UNCHANGED <<image_model, tokenizer, text_model, evalMode, constructed,
                   route, guardPassed, tqVars, sevVars>>

\* lines 50-52: image_model = AutoModelForImageClassification
\*                  .from_pretrained(...).to(DEVICE)
\* The new model is the constructed["vision"]+1-th of its kind.  Whether the
\* library hands it over in inference mode already is not the code's doing:
\* both are possible here.
LoadImageModel(t) ==
    /\ ipc[t].at = "L50"
    /\ \/ LET h == <<"vision", constructed["vision"] + 1>>
          IN  /\ constructed' = [constructed EXCEPT !["vision"] = @ + 1]
              /\ image_model' = h
              /\ \E m \in BOOLEAN : evalMode' = (h :> m) @@ evalMode
              /\ ipc' = [ipc EXCEPT ![t].at = "L53"]
              /\ UNCHANGED iresponse
       \/ /\ Raised(t)
          /\ UNCHANGED <<constructed, image_model, evalMode>>
    /\ UNCHANGED <<image_processor, tokenizer, text_model, route, guardPassed,
                   tqVars, sevVars>>

\* line 53: image_model.eval(), on the model the global names now
EvalImageModel(t) ==
    /\ ipc[t].at = "L53"
    /\ evalMode' = [evalMode EXCEPT ![image_model] = TRUE]
    /\ ipc' = [ipc EXCEPT ![t].at = "L55"]
    /\ UNCHANGED <<image_processor, image_model, tokenizer, text_model,
                   constructed, route, guardPassed, iresponse, tqVars, sevVars>>

\* line 55: if text_model is None
GuardTextModel(t) ==
    /\ ipc[t].at = "L55"
    /\ IF text_model = None
       THEN /\ ipc' = [ipc EXCEPT ![t].at = "L56"]
            /\ UNCHANGED guardPassed
       ELSE /\ ipc' = [ipc EXCEPT ![t] = after_load_models(ipc[t].in)]
            /\ guardPassed' = [guardPassed EXCEPT ![t] = @ \cup {"report"}]
    /\ UNCHANGED <<image_processor, image_model, tokenizer, text_model, evalMode,
                   constructed, route, iresponse, tqVars, sevVars>>

\* lines 56-58: tokenizer = AutoTokenizer.from_pretrained(...)
LoadTokenizer(t) ==
    /\ ipc[t].at = "L56"
    /\ \/ /\ tokenizer' = "t5-plant-disease-detector-v2"
          /\ ipc' = [ipc EXCEPT ![t].at = "L59"]
          /\ UNCHANGED iresponse
       \/ /\ Raised(t)
          /\ UNCHANGED tokenizer
    /\ UNCHANGED <<image_processor, image_model, text_model, evalMode,
                   constructed, route, guardPassed, tqVars, sevVars>>

\* lines 59-61: text_model = AutoModelForSeq2SeqLM.from_pretrained(...).to(DEVICE)
LoadReportModel(t) ==
    /\ ipc[t].at = "L59"
    /\ \/ LET h == <<"report", constructed["report"] + 1>>
          IN  /\ constructed' = [constructed EXCEPT !["report"] = @ + 1]
              /\ text_model' = h
              /\ \E m \in BOOLEAN : evalMode' = (h :> m) @@ evalMode
              /\ ipc' = [ipc EXCEPT ![t].at = "L62"]
              /\ UNCHANGED iresponse
       \/ /\ Raised(t)
          /\ UNCHANGED <<constructed, text_model, evalMode>>
    /\ UNCHANGED <<image_processor, image_model, tokenizer, route, guardPassed,
                   tqVars, sevVars>>

\* line 62: text_model.eval(); load_models returns
EvalReportModel(t) ==
    /\ ipc[t].at = "L62"
    /\ evalMode' = [evalMode EXCEPT ![text_model] = TRUE]
    /\ ipc' = [ipc EXCEPT ![t] = after_load_models(ipc[t].in)]
    /\ UNCHANGED <<image_processor, image_model, tokenizer, text_model,
                   constructed, route, guardPassed, iresponse, tqVars, sevVars>>

\* lines 118-124: health returns
HealthReturn(t) ==
    /\ ipc[t] = At("L118", "health")
    /\ ipc' = [ipc EXCEPT ![t] = At("done", "none")]
    /\ iresponse' = [iresponse EXCEPT ![t] = json_ok]
    /\ UNCHANGED <<image_processor, image_model, tokenizer, text_model, evalMode,
                   constructed, route, guardPassed, tqVars, sevVars>>

\* lines 76-89: image_processor(...), image_model(**inputs), softmax, label;
\* then line 145 calls generate_disease_report, which starts with load_models().
ClassifyForward(t) ==
    /\ ipc[t] = At("L76", "classify_plant_disease")
    /\ \/ /\ image_processor # None
          /\ image_model # None
          /\ ipc' = [ipc EXCEPT ![t] = At("L46", "generate_disease_report")]
          /\ UNCHANGED iresponse
       \/ Raised(t)
    /\ UNCHANGED <<image_processor, image_model, tokenizer, text_model, evalMode,
                   constructed, route, guardPassed, tqVars, sevVars>>

\* lines 95-109: tokenizer(prompt), text_model.generate(...), decode; then
\* lines 147-169: severity, processing time and the JSON response.
GenerateReport(t) ==
    /\ ipc[t] = At("L100", "generate_disease_report")
    /\ \/ /\ tokenizer # None
          /\ text_model # None
          /\ ipc' = [ipc EXCEPT ![t] = At("done", "none")]
          /\ iresponse' = [iresponse EXCEPT ![t] = json_ok]
       \/ Raised(t)
    /\ UNCHANGED <<image_processor, image_model, tokenizer, text_model, evalMode,
                   constructed, route, guardPassed, tqVars, sevVars>>

\* The response is sent; the thread goes back to the pool.
Release(t) ==
    /\ ipc[t] = At("done", "none")
    /\ ipc' = [ipc EXCEPT ![t] = IdleThread]
    /\ route' = [route EXCEPT ![t] = "none"]
    /\ guardPassed' = [guardPassed EXCEPT ![t] = {}]
    /\ iresponse' = [iresponse EXCEPT ![t] = NoIResponse]
    /\ UNCHANGED <<image_processor, image_model, tokenizer, text_model, evalMode,
                   constructed, tqVars, sevVars>>

NextImage ==
    \E t \in Threads :
        \/ Accept(t)
        \/ ReadImage(t)
        \/ GuardImageModel(t)
        \/ LoadImageProcessor(t)
        \/ LoadImageModel(t)
        \/ EvalImageModel(t)
        \/ GuardTextModel(t)
        \/ LoadTokenizer(t)
        \/ LoadReportModel(t)
        \/ EvalReportModel(t)
        \/ HealthReturn(t)
        \/ ClassifyForward(t)
        \/ GenerateReport(t)
        \/ Release(t)

\* The image service from process start; the text service is not running.
InitImage ==
    /\ image_processor = None
    /\ image_model = None
    /\ tokenizer = None
    /\ text_model = None
    /\ evalMode = << >>
    /\ constructed = [k \in Kinds |-> 0]
    /\ ipc = [t \in Threads |-> IdleThread]
    /\ route = [t \in Threads |-> "none"]
    /\ guardPassed = [t \in Threads |-> {}]
    /\ iresponse = [t \in Threads |-> NoIResponse]
    /\ tq_tokenizer = None
    /\ tq_model = None
    /\ pc = "Waiting"
    /\ request_text = << >>
    /\ text = << >>
    /\ domain = None
    /\ generated = NotGenerated
    /\ response = NoResponse
    /\ path = << >>
    /\ everLoadFailed = FALSE
    /\ conf = 0
    /\ confidence = 0
    /\ severity = None

SpecImage == InitImage /\ [][NextImage]_vars

---------------------------------------------------------------------------
(* agriclip_models.py: confidence and severity of one classification *)

\* float(confidence.item()) is a probability; here a multiple of 1/ProbScale.
ProbScale == 1000

\* line 88: int(conf * 100), which truncates
int_percent(c) == (c * 100) \div ProbScale

\* Faulty variant of severity_of: > 80 in place of >= 80.
severity_of_strict(c) ==
    IF c > 80 THEN "high" ELSE IF c >= 60 THEN "medium" ELSE "low"

\* lines 147-151
severity_of(c) ==
    IF c >= 80 THEN "high" ELSE IF c >= 60 THEN "medium" ELSE "low"

\* lines 84-88 and 142-151, for the probability conf of the arg-max class
ClassifySeverity ==
    /\ severity = None
    /\ confidence' = int_percent(conf)
    /\ severity' = severity_of(confidence')
    /\ UNCHANGED <<conf, tqVars, imgVars>>

\* One classification for each probability the vision model can report.
InitSeverity ==
    /\ conf \in 0..ProbScale
    /\ confidence = 0
    /\ severity = None
    /\ tq_tokenizer = None
    /\ tq_model = None
    /\ pc = "Waiting"
    /\ request_text = << >>
    /\ text = << >>
    /\ domain = None
    /\ generated = NotGenerated
    /\ response = NoResponse
    /\ path = << >>
    /\ everLoadFailed = FALSE
    /\ image_processor = None
    /\ image_model = None
    /\ tokenizer = None
    /\ text_model = None
    /\ evalMode = << >>
    /\ constructed = << >>
    /\ ipc = << >>
    /\ route = << >>
    /\ guardPassed = << >>
    /\ iresponse = << >>

SpecSeverity == InitSeverity /\ [][ClassifySeverity]_vars

---------------------------------------------------------------------------
(* The properties *)

Domains == {"plant", "fruit", "livestock", "fish"}

IsPrefix(p, q) == Len(p) <= Len(q) /\ SubSeq(q, 1, Len(p)) = p

\* The three complete paths of the text-query state machine.
OutOfScopePath == <<"Idle", "Validate", "DomainCheck", "OutOfScope">>
ImageIntentPath == <<"Idle", "Validate", "DomainCheck", "IntentCheck", "ImageIntent">>
AnswerPath ==
    <<"Idle", "Validate", "DomainCheck", "IntentCheck", "AnswerGeneration", "Answered">>
MachinePaths == {OutOfScopePath, ImageIntentPath, AnswerPath}
LoadFailedPath == <<"Idle", "LoadFailed">>

\* The stages a request is in after the domain gate has returned.
PastGate == {"OutOfScope", "IntentCheck", "ImageIntent", "AnswerGeneration", "Answered"}
\* The stages a request is in after load_text_model has returned normally.
PastLoad == {"Validate", "EmptyInput", "DomainCheck"} \cup PastGate

\* The request in flight has a non-empty trimmed text.
NonEmptyQuery == strip(request_text) # << >>

\* ---- C1 ----------------------------------------------------------------
\* C1: under any interleaving of the requests that trigger the first load,
\* the pretrained model of each kind is constructed at most once in the
\* process.  (Stated for the image service, whose routes run on threads.)
C1_AtMostOneLoad == \A k \in Kinds : constructed[k] <= 1

\* ---- C2 ----------------------------------------------------------------
\* C2, as claimed: every text query with a non-empty trimmed text goes
\* through one of the three complete paths of the state machine, so it ends
\* in OutOfScope, ImageIntent or AnswerGeneration and nowhere else.
C2_EveryQueryEndsInMachine ==
    (pc \in Terminal /\ NonEmptyQuery) => path \in MachinePaths

\* C2, amended: a text query with a non-empty trimmed text either fails in
\* load_text_model, before the machine starts, with status 500, or goes
\* once through one of the three complete paths (domain check before intent
\* check, no stage twice) and ends with the response of its terminal state:
\* the fixed message, the cleaned query echoed, or a generated, fallback or
\* apology answer.
C2_PathsOfTheMachine ==
    /\ (pc \notin {"Waiting"} /\ NonEmptyQuery) =>
          \E p \in MachinePaths \cup {LoadFailedPath} : IsPrefix(path, p)
    /\ (pc \in Terminal /\ NonEmptyQuery) =>
          /\ path[Len(path)] = pc
          /\ path \in MachinePaths \cup {LoadFailedPath}
          /\ pc = "LoadFailed" => response.status = 500
          /\ pc = "OutOfScope" => response.answer = fixed_answer(OUT_OF_SCOPE_MSG)
          /\ pc = "ImageIntent" =>
                /\ response.type = "image"
                /\ response.imageQuery = Some(clean_image_query(text))
          /\ pc = "Answered" =>
                /\ response.type = "text"
                /\ \/ response.answer = [kind |-> "generated", length |-> generated.length]
                   \/ response.answer = fixed_answer(FALLBACK_ANSWER)
                   \/ response.answer = fixed_answer(APOLOGY_ANSWER)

\* A query that went through the longest path and got a generated answer.
C2_Witness ==
    /\ pc = "Answered"
    /\ NonEmptyQuery
    /\ path = AnswerPath
    /\ response.answer = [kind |-> "generated", length |-> MinAnswerLen]

\* ---- C3 ----------------------------------------------------------------
\* C3: a text query whose text is empty or white space only is rejected with
\* status 400 "Empty query", whatever the state of the model registry, and
\* nothing else gets status 400.
C3_EmptyIsRejectedWith400 ==
    pc \in Terminal =>
        /\ ~NonEmptyQuery => response = http_exception(400, "Empty query")
        /\ response.status = 400 => ~NonEmptyQuery

\* ---- C4 ----------------------------------------------------------------
\* C4, as claimed: every text query with a non-empty trimmed text returns a
\* TextAnswer, no exception leaves text_query.
C4_NeverRaises ==
    (pc \in Terminal /\ NonEmptyQuery) =>
        /\ response.status = 200
        /\ response.type \in {"text", "image"}

\* C4, amended: every text query with a non-empty trimmed text for which
\* load_text_model does not raise returns a TextAnswer (status 200, type
\* text or image, one of the four domains); when generation raises, the
\* answer is the fixed apology, with type text and the resolved domain.
C4_AnswersOnceLoaded ==
    (pc \in Terminal /\ NonEmptyQuery /\ pc # "LoadFailed") =>
        /\ response.status = 200
        /\ response.type \in {"text", "image"}
        /\ response.domain \in Domains
        /\ (pc = "Answered" /\ generated.raised) =>
              /\ domain \in Domains
              /\ response = [status |-> 200, type |-> "text", domain |-> domain,
                             answer |-> [kind |-> "fixed", text |-> APOLOGY_ANSWER],
                             imageQuery |-> Nothing]

\* Generation raised and the apology was returned.
C4_Witness ==
    /\ pc = "Answered"
    /\ generated.raised
    /\ response.status = 200
    /\ response.answer = [kind |-> "fixed", text |-> APOLOGY_ANSWER]

C6_SeverityBuckets ==
    severity # None =>
        /\ confidence \in 0..100
        /\ severity \in {"high", "medium", "low"}
        /\ (severity = "high") <=> (confidence >= 80)
        /\ (severity = "medium") <=> (60 <= confidence /\ confidence < 80)
        /\ (severity = "low") <=> (confidence < 60)
        /\ (confidence = 82 \/ confidence = 80) => severity = "high"
        /\ confidence = 60 => severity = "medium"
        /\ confidence = 59 => severity = "low"

\* The lower edge of the high bucket.
C6_Witness == severity = "high" /\ confidence = 80

\* ---- C7 ----------------------------------------------------------------
\* Keyword k, or k followed by "s", stands in s as a whole word: not
\* preceded and not followed by a word character.
C7_OccursAsWord(s, k) ==
    \E i \in {p \in 1..Len(s) : s[p] = Head(k)} : \E w \in {k, k \o <<"s">>} :
        LET j == i + Len(w) - 1
        IN  /\ j <= Len(s)
            /\ SubSeq(s, i, j) = w
            /\ (i = 1 \/ ~IsWordChar(s[i - 1]))
            /\ (j = Len(s) \/ ~IsWordChar(s[j + 1]))

\* The table entries one of whose keywords stands in the lower-cased text.
C7_DomainsFound(s) ==
    LET t == lower(s)
    IN  {d \in 1..Len(DOMAIN_KEYWORDS) :
            \E n \in 1..Len(DOMAIN_KEYWORDS[d].keywords) :
                C7_OccursAsWord(t, DOMAIN_KEYWORDS[d].keywords[n])}

C7_FirstDomainFound(s) ==
    LET found == C7_DomainsFound(s)
    IN  IF found = {} THEN None ELSE DOMAIN_KEYWORDS[Min(found)].domain

\* C7: detect_domain returns the first domain in table order (plant, fruit,
\* livestock, fish) one of whose keywords stands in the lower-cased text as
\* a whole word, optionally with a plural "s", and None iff there is none.
C7_FirstDomainInTableOrder ==
    pc \in PastGate =>
        LET found == C7_DomainsFound(text)
        IN  /\ domain = (IF found = {} THEN None
                         ELSE DOMAIN_KEYWORDS[Min(found)].domain)
            /\ (domain = None) <=> (found = {})

\* The tie-break: a text with a livestock keyword ahead of a fruit keyword
\* is a fruit text.
C7_Witness ==
    /\ pc = "IntentCheck"
    /\ domain = "fruit"
    /\ C7_DomainsFound(text) = {2, 3}
    /\ LiteralAt(text, 1, <<"C","o","w">>)

\* ---- C8 ----------------------------------------------------------------
\* The positions where one of the words stands in s, and where it ends.
C8_Occurrences(s, words) ==
    {<<i, i + Len(words[n]) - 1>> : i \in 1..Len(s), n \in 1..Len(words)} \cap
    {<<i, j>> \in (1..Len(s)) \X (1..Len(s)) :
        \E n \in 1..Len(words) : SubSeq(s, i, j) = words[n]}

\* The image-request pattern: a request verb and, later on the same line,
\* an image noun; or an image noun, white space and "of".
C8_MatchesPattern(s) ==
    LET t == lower(s)
    IN  \/ \E v \in C8_Occurrences(t, REQUEST_VERBS) :
           \E n \in C8_Occurrences(t, IMAGE_NOUNS) :
              /\ v[2] < n[1]
              /\ \A m \in (v[2] + 1)..(n[1] - 1) : t[m] # "\n"
        \/ \E n \in C8_Occurrences(t, IMAGE_NOUNS) :
           \E o \in C8_Occurrences(t, << OF_WORD >>) :
              /\ n[2] + 1 < o[1]
              /\ \A m \in (n[2] + 1)..(o[1] - 1) : IsSpaceChar(t[m])

\* C8, as claimed: every query text that matches the image-request pattern
\* gets type=image and a non-empty imageQuery, which is the original text
\* when the stripping leaves nothing.
C8_PatternGivesImage ==
    (pc \in Terminal /\ text # << >> /\ C8_MatchesPattern(text)) =>
        /\ response.status = 200
        /\ response.type = "image"
        /\ response.imageQuery # Nothing
        /\ response.imageQuery # Some(<< >>)
        /\ stripped_query(text) = << >> => response.imageQuery = Some(text)

\* C8, amended: every query text that the domain gate accepts and that
\* matches the image-request pattern gets type=image, the gate's domain and
\* a non-empty imageQuery: the lower-cased text with the verbs, the image
\* nouns, "of" and the punctuation stripped, which for a text the gate
\* accepted is never empty (the original text is not fallen back to).
C8_AcceptedPatternGivesImage ==
    (pc \in Terminal /\ text # << >> /\ domain # None /\ C8_MatchesPattern(text)) =>
        /\ pc = "ImageIntent"
        /\ response.status = 200
        /\ response.type = "image"
        /\ response.domain = domain
        /\ stripped_query(text) # << >>
        /\ response.imageQuery = Some(stripped_query(text))

\* "pic  of rice" and the like: an image answer about rice.
C8_Witness ==
    /\ pc = "ImageIntent"
    /\ C8_MatchesPattern(text)
    /\ response.type = "image"
    /\ response.imageQuery = Some(<<"r","i","c","e">>)

\* ---- C9 ----------------------------------------------------------------
\* C9: when the domain gate returns None for a non-empty query, the response
\* is type=text, domain=plant, the fixed out-of-scope message, no
\* imageQuery, and neither the intent check nor answer generation is run,
\* also when the text matches the image-request pattern.
C9_OutOfScopeAnswer ==
    (pc \in PastGate /\ domain = None) =>
        /\ pc = "OutOfScope"
        /\ text # << >>
        /\ path = OutOfScopePath
        /\ generated = NotGenerated
        /\ response = [status |-> 200, type |-> "text", domain |-> "plant",
                       answer |-> [kind |-> "fixed", text |-> OUT_OF_SCOPE_MSG],
                       imageQuery |-> Nothing]

\* An out-of-scope answer to a text that asks for an image.
C9_Witness ==
    /\ pc = "OutOfScope"
    /\ domain = None
    /\ C8_MatchesPattern(text)

\* ---- C10 ---------------------------------------------------------------
\* Thread t runs the forward pass of the vision model in this step, having
\* found image_model set at the guard.
C10_VisionInferenceAfterGuard(t) ==
    /\ ipc[t] = At("L76", "classify_plant_disease")
    /\ ipc'[t] = At("L46", "generate_disease_report")
    /\ "vision" \in guardPassed[t]

\* Thread t runs the report generation in this step, having found
\* text_model set at the guard.
C10_ReportInferenceAfterGuard(t) ==
    /\ ipc[t] = At("L100", "generate_disease_report")
    /\ iresponse'[t] = json_ok
    /\ "report" \in guardPassed[t]

===========================================================================
